---- MODULE Spec2Model ----
(***************************************************************************)
(* SudsLibrary keyword adapter: the client registry (create_client,        *)
(* switch_client) and the options keywords acting on the current client.   *)
(* Keyword arguments are strings, as the test runner delivers them.        *)
(***************************************************************************)
EXTENDS Integers, Sequences, FiniteSets, TLC

\* ------------------------------------------------------------------ bounds
MaxClients == 2      \* clients created in the registry specifications
MaxOptClients == 1   \* clients created in the option specifications
MaxImports == 1      \* pending doctor imports held at once
MaxArgs == 4         \* length of a variadic argument list

VARIABLES
    connections,     \* _cache._connections: sequence of client ids
    aliases,         \* _cache._aliases: alias -> index
    current,         \* _cache.current: a client id, or NoConnection
    imports,         \* self._imports
    logging_option,  \* self._logging_option: client id -> BOOLEAN
    listener_log,    \* self._listener.log
    wsdl,            \* client.wsdl.url of every constructed client
    options,         \* client.options of every constructed client
    locations,       \* client.wsdl.services[i] method locations
    bindings,        \* BasicImport.locations (shared by all instances)
    last,            \* the last keyword call: op, args, result, ret, log
    returned,        \* history: the indices create_client has returned
    recent           \* history: last call / last completed call among
                     \* add_doctor_import and create_client

vars == <<connections, aliases, current, imports, logging_option, listener_log,
          wsdl, options, locations, bindings, last, returned, recent>>

\* ------------------------------------------------------- argument parsing
NoConnection == 0

DigitVal == ("0" :> 0) @@ ("1" :> 1) @@ ("2" :> 2) @@ ("3" :> 3) @@ ("4" :> 4)
              @@ ("5" :> 5) @@ ("-1" :> (0 - 1))

\* int(s): the value, or a ValueError when s is no integer literal
IsInt(s) == s \in DOMAIN DigitVal

\* to_bool(s): the accepted literals of the boolean-string rule
TrueLiterals == {"True", "true", "yes", "on", "1"}
FalseLiterals == {"False", "false", "no", "off", "0", ""}

to_bool(s) ==
    IF s \in TrueLiterals THEN [err |-> "", v |-> TRUE]
    ELSE IF s \in FalseLiterals THEN [err |-> "", v |-> FALSE]
    ELSE [err |-> "ValueError", v |-> FALSE]

\* ------------------------------------------------------- the environment
\* urlparse(s).scheme of the sources a test passes to Create Client
Scheme == ("http://h/one?wsdl" :> "http") @@ ("http://h/bad" :> "http")
            @@ ("my three.wsdl" :> "") @@ ("c:/none.wsdl" :> "c")
            @@ ("missing.wsdl" :> "")

Sources == DOMAIN Scheme

\* os.path.isfile
isfile(p) == p \in {"my three.wsdl"}

\* urllib.pathname2url: percent-encodes the path
pathname2url(p) == IF p = "my three.wsdl" THEN "my%20three.wsdl" ELSE p

\* 'file:' + quoted path
FileUrl(q) == IF q = "my%20three.wsdl" THEN "file:my%20three.wsdl" ELSE "file:?"

\* The WSDL documents Client() can load, with their number of services
ServiceCount == ("http://h/one?wsdl" :> 1) @@ ("file:my%20three.wsdl" :> 3)

Methods == {"m1", "m2"}

\* ------------------------------------------------------ clientmanagement
_get_url(url_or_path) ==
    IF ~(Len(Scheme[url_or_path]) > 1)
    THEN IF ~isfile(url_or_path)
         THEN [err |-> "IOError", url |-> ""]
         ELSE [err |-> "", url |-> FileUrl(pathname2url(url_or_path))]
    ELSE [err |-> "", url |-> url_or_path]

\* A keyword is a function of the library state `self` and its arguments to
\* the state it leaves, its outcome and its return value.  An exception
\* keeps whatever was assigned before it was raised.
Ok(self, ret) == [self |-> self, result |-> "ok", ret |-> ret]
Raise(self, err) == [self |-> self, result |-> err, ret |-> 0]

NoAlias == [given |-> FALSE]
Alias(s) == [given |-> TRUE, s |-> s]

\* ConnectionCache.register: append, make current, bind the alias (the last
\* binding of an alias wins), return the 1-based index
cache_register(self, conn, alias) ==
    LET index == Len(self.connections) + 1 IN
    Ok([self EXCEPT !.current = conn,
                    !.connections = Append(@, conn),
                    !.aliases = IF alias.given THEN (alias.s :> index) @@ @ ELSE @],
       index)

\* A string of decimal digits is an index, never an alias
IsIndex(s) == IsInt(s) /\ DigitVal[s] >= 0

\* ConnectionCache.switch: by 1-based index or by alias
cache_switch(self, index_or_alias) ==
    IF IsIndex(index_or_alias)
    THEN IF DigitVal[index_or_alias] \in 1..Len(self.connections)
         THEN Ok([self EXCEPT !.current = self.connections[DigitVal[index_or_alias]]],
                 self.connections[DigitVal[index_or_alias]])
         ELSE Raise(self, "LookupError")
    ELSE IF index_or_alias \in DOMAIN self.aliases
         THEN Ok([self EXCEPT !.current = self.connections[self.aliases[index_or_alias]]],
                 self.connections[self.aliases[index_or_alias]])
         ELSE Raise(self, "LookupError")

\* suds.client.Client(url, **kwargs): a new client object on the loaded WSDL
DefaultOptions ==
    [faults |-> FALSE, plugins |-> <<>>, service |-> [none |-> TRUE],
     port |-> [none |-> TRUE], proxy |-> <<>>, headers |-> [dict |-> <<>>],
     soapheaders |-> <<>>, retxml |-> FALSE, transport |-> "default"]

WsdlLocations(url) ==
    [i \in 0..(ServiceCount[url] - 1) |-> [m \in Methods |-> "wsdl"]]

Client(self, url, kwargs) ==
    IF url \notin DOMAIN ServiceCount
    THEN Raise(self, "TransportError")
    ELSE LET client == Cardinality(DOMAIN self.wsdl) + 1 IN
         Ok([self EXCEPT !.wsdl = (client :> url) @@ @,
                         !.options = (client :> DefaultOptions) @@ @,
                         !.locations = (client :> WsdlLocations(url)) @@ @],
            client)

\* client.set_options(name=value)
set_options(self, client, name, value) ==
    [self EXCEPT !.options[client] = [@ EXCEPT ![name] = value]]

\* self._logger.info(msg)
logger_info(self, msg) == [self EXCEPT !.log = Append(@, msg)]

\* _add_client dropping the index the cache hands back
_add_client_no_return(self, client, alias) ==
    LET s1 == [self EXCEPT !.options[client].plugins = Append(@, "listener")]
        s2 == set_options(s1, client, "faults", TRUE)
        s3 == logger_info(s2, [msg |-> "Using WSDL at", url |-> s2.wsdl[client]])
        s4 == [s3 EXCEPT !.imports = <<>>]
        s5 == [s4 EXCEPT !.logging_option = (client :> TRUE) @@ @]
    IN Ok(cache_register(s5, client, alias).self, 0)

\* _add_client leaving the pending imports in place
_add_client_keep_imports(self, client, alias) ==
    LET s1 == [self EXCEPT !.options[client].plugins = Append(@, "listener")]
        s2 == set_options(s1, client, "faults", TRUE)
        s3 == logger_info(s2, [msg |-> "Using WSDL at", url |-> s2.wsdl[client]])
        s5 == [s3 EXCEPT !.logging_option = (client :> TRUE) @@ @]
    IN cache_register(s5, client, alias)

_add_client(self, client, alias) ==
    LET s1 == [self EXCEPT !.options[client].plugins = Append(@, "listener")]
        s2 == set_options(s1, client, "faults", TRUE)
        s3 == logger_info(s2, [msg |-> "Using WSDL at", url |-> s2.wsdl[client]])
        s4 == [s3 EXCEPT !.imports = <<>>]
        s5 == [s4 EXCEPT !.logging_option = (client :> TRUE) @@ @]
    IN cache_register(s5, client, alias)

_log_imports(self) ==
    IF self.imports # <<>>
    THEN logger_info(self, [msg |-> "Using Imports for ImportDoctor:",
                            imports |-> self.imports])
    ELSE self

\* create_client clearing the pending imports as soon as it has read them
create_client_clear_early(self, url_or_path, alias, autoblend) ==
    LET got == _get_url(url_or_path)
        blend == to_bool(autoblend)
        kwargs == [autoblend |-> blend.v, doctor |-> self.imports]
        logged == IF self.imports # <<>> THEN _log_imports(self) ELSE self
        taken == [logged EXCEPT !.imports = <<>>]
        made == Client(taken, got.url, kwargs)
    IN  IF got.err # "" THEN Raise(self, got.err)
        ELSE IF blend.err # "" THEN Raise(self, blend.err)
        ELSE IF made.result # "ok" THEN made
        ELSE _add_client(made.self, made.ret, alias)

create_client(self, url_or_path, alias, autoblend) ==
    LET got == _get_url(url_or_path)
        blend == to_bool(autoblend)
        kwargs == [autoblend |-> blend.v, doctor |-> self.imports]
        logged == IF self.imports # <<>> THEN _log_imports(self) ELSE self
        made == Client(logged, got.url, kwargs)
    IN  IF got.err # "" THEN Raise(self, got.err)
        ELSE IF blend.err # "" THEN Raise(self, blend.err)
        ELSE IF made.result # "ok" THEN made
        ELSE _add_client(made.self, made.ret, alias)

\* switch_client without the restore of the logging flag
switch_client_no_restore(self, index_or_alias) ==
    LET sw == cache_switch(self, index_or_alias) IN
    IF sw.result # "ok" THEN sw ELSE Ok(sw.self, 0)

\* switch_client resetting the listener before the lookup
switch_client_reset_first(self, index_or_alias) ==
    LET s0 == [self EXCEPT !.listener_log = TRUE]
        sw == cache_switch(s0, index_or_alias) IN
    IF sw.result # "ok" THEN sw
    ELSE Ok([sw.self EXCEPT !.listener_log = sw.self.logging_option[sw.ret]], 0)

switch_client(self, index_or_alias) ==
    LET sw == cache_switch(self, index_or_alias) IN
    IF sw.result # "ok" THEN sw
    ELSE Ok([sw.self EXCEPT !.listener_log = sw.self.logging_option[sw.ret]], 0)

_client(self) == self.current

\* Set Soap Logging, the toggle of a client's logging flag: it writes the
\* flag of the current client and the listener's active flag together
set_soap_logging(self, log) ==
    LET new_value == to_bool(log) IN
    IF new_value.err # "" THEN Raise(self, new_value.err)
    ELSE IF _client(self) = NoConnection THEN Raise(self, "StateError")
    ELSE Ok([self EXCEPT !.listener_log = new_value.v,
                         !.logging_option[_client(self)] = new_value.v], 0)

\* ---------------------------------------------------------------- options
\* parse_index: a string of decimal digits is an index, anything else a name
parse_index(s) == IF IsIndex(s) THEN [index |-> DigitVal[s]] ELSE [name |-> s]

\* self._client().set_options(name=value): NoConnection raises on use
client_set_options(self, name, value) ==
    IF _client(self) = NoConnection THEN Raise(self, "StateError")
    ELSE Ok(set_options(self, _client(self), name, value), 0)

set_service(self, service) ==
    client_set_options(self, "service", parse_index(service))

set_port(self, port) ==
    client_set_options(self, "port", parse_index(port))

\* d = {}; for i in range(0, len(pairs), 2): d[pairs[i]] = pairs[i+1]
RECURSIVE pairs_loop(_, _, _)
pairs_loop(pairs, i, d) ==
    IF i >= Len(pairs) THEN d
    ELSE pairs_loop(pairs, i + 2, (pairs[i + 1] :> pairs[i + 2]) @@ d)

\* the loop keeping the first value given for a key
RECURSIVE pairs_loop_first_wins(_, _, _)
pairs_loop_first_wins(pairs, i, d) ==
    IF i >= Len(pairs) THEN d
    ELSE pairs_loop_first_wins(pairs, i + 2, d @@ (pairs[i + 1] :> pairs[i + 2]))

pairs_to_dict_first_wins(pairs) == pairs_loop_first_wins(pairs, 0, <<>>)

pairs_to_dict(pairs) == pairs_loop(pairs, 0, <<>>)

set_proxies(self, protocol_url_pairs) ==
    IF Len(protocol_url_pairs) % 2 # 0 THEN Raise(self, "ValueError")
    ELSE client_set_options(self, "proxy", pairs_to_dict(protocol_url_pairs))

\* set_headers taking every odd-length list as a single argument
set_headers_odd_is_single(self, dict_or_key_value_pairs) ==
    LET length == Len(dict_or_key_value_pairs) IN
    IF length % 2 = 1
    THEN client_set_options(self, "headers", dict_or_key_value_pairs[1])
    ELSE client_set_options(self, "headers",
                            [dict |-> pairs_to_dict(dict_or_key_value_pairs)])

set_headers(self, dict_or_key_value_pairs) ==
    LET length == Len(dict_or_key_value_pairs) IN
    IF length = 1
    THEN client_set_options(self, "headers", dict_or_key_value_pairs[1])
    ELSE IF length % 2 = 0
    THEN client_set_options(self, "headers",
                            [dict |-> pairs_to_dict(dict_or_key_value_pairs)])
    ELSE Raise(self, "ValueError")

set_soap_headers(self, headers) ==
    client_set_options(self, "soapheaders", headers)

_set_boolean_option(self, name, value) ==
    LET v == to_bool(value) IN
    IF v.err # "" THEN Raise(self, v.err)
    ELSE client_set_options(self, name, v.v)

set_return_xml(self, return_xml) ==
    _set_boolean_option(self, "retxml", return_xml)

\* str.upper on the type names a test passes
Upper == ("STANDARD" :> "STANDARD") @@ ("always_send" :> "ALWAYS_SEND")
           @@ ("ntlm" :> "NTLM") @@ ("NTLM" :> "NTLM") @@ ("bogus" :> "BOGUS")

classes == ("STANDARD" :> "https.HttpAuthenticated")
             @@ ("ALWAYS_SEND" :> "http.HttpAuthenticated")
             @@ ("NTLM" :> "https.WindowsHttpAuthenticated")

set_http_authentication(self, username, password, type) ==
    IF Upper[type] \notin DOMAIN classes THEN Raise(self, "ValueError")
    ELSE client_set_options(self, "transport",
             [class |-> classes[Upper[type]], username |-> username,
              password |-> password])

\* Service.setlocation(url, names): the named methods, or all of them
setlocation(svc, url, names) ==
    [m \in DOMAIN svc |->
        IF names = <<>> \/ \E i \in 1..Len(names) : names[i] = m
        THEN url ELSE svc[m]]

\* set_location without the single-service rule
set_location_no_single(self, url, service_index, names) ==
    IF _client(self) = NoConnection THEN Raise(self, "StateError")
    ELSE
    LET client == _client(self)
        services == self.locations[client]
        service_count == Cardinality(DOMAIN services)
    IN  IF ~IsInt(service_index) THEN Raise(self, "ValueError")
        ELSE IF DigitVal[service_index] < 0
        THEN Ok([self EXCEPT !.locations[client] =
                    [i \in DOMAIN services |-> setlocation(services[i], url, names)]], 0)
        ELSE IF DigitVal[service_index] >= service_count
        THEN Raise(self, "IndexError")
        ELSE Ok([self EXCEPT !.locations[client][DigitVal[service_index]] =
                    setlocation(@, url, names)], 0)

set_location(self, url, service_index, names) ==
    IF _client(self) = NoConnection THEN Raise(self, "StateError")
    ELSE
    LET client == _client(self)
        services == self.locations[client]
        service_count == Cardinality(DOMAIN services)
    IN  IF service_count # 1 /\ ~IsInt(service_index) THEN Raise(self, "ValueError")
        ELSE
        LET index == IF service_count = 1 THEN 0 ELSE DigitVal[service_index] IN
        IF index < 0
        THEN Ok([self EXCEPT !.locations[client] =
                    [i \in DOMAIN services |-> setlocation(services[i], url, names)]], 0)
        ELSE IF index >= service_count
        THEN Raise(self, "IndexError")
        ELSE Ok([self EXCEPT !.locations[client][index] =
                    setlocation(@, url, names)], 0)

Import(import_namespace, location) ==
    [ns |-> import_namespace, location |-> location, filter |-> {}]

\* add_doctor_import going through the current client first
add_doctor_import_on_client(self, import_namespace, location, filters) ==
    IF _client(self) = NoConnection THEN Raise(self, "StateError")
    ELSE
    LET loc == IF location # "" THEN [given |-> TRUE, s |-> location]
                                ELSE [given |-> FALSE]
        imp == [Import(import_namespace, loc) EXCEPT
                   !.filter = {filters[i] : i \in 1..Len(filters)}]
    IN Ok([self EXCEPT !.imports = Append(@, imp)], 0)

add_doctor_import(self, import_namespace, location, filters) ==
    LET loc == IF location # "" THEN [given |-> TRUE, s |-> location]
                                ELSE [given |-> FALSE]
        imp == [Import(import_namespace, loc) EXCEPT
                   !.filter = {filters[i] : i \in 1..Len(filters)}]
    IN Ok([self EXCEPT !.imports = Append(@, imp)], 0)

\* BasicImport.bind(namespace, location): shared, the last binding wins
bind_schema_to_location(self, namespace, location) ==
    Ok([self EXCEPT !.bindings = (namespace :> location) @@ @], 0)

\* ------------------------------------------------------------ the machine
Self ==
    [connections |-> connections, aliases |-> aliases, current |-> current,
     imports |-> imports, logging_option |-> logging_option,
     listener_log |-> listener_log, wsdl |-> wsdl, options |-> options,
     locations |-> locations, bindings |-> bindings, log |-> <<>>]

\* The keyword ran: its state, and the record of the call
Run(op, args, r) ==
    /\ connections' = r.self.connections
    /\ aliases' = r.self.aliases
    /\ current' = r.self.current
    /\ imports' = r.self.imports
    /\ logging_option' = r.self.logging_option
    /\ listener_log' = r.self.listener_log
    /\ wsdl' = r.self.wsdl
    /\ options' = r.self.options
    /\ locations' = r.self.locations
    /\ bindings' = r.self.bindings
    /\ last' = [op |-> op, args |-> args, result |-> r.result, ret |-> r.ret,
                log |-> r.self.log]

Init ==
    /\ connections = <<>>
    /\ aliases = <<>>
    /\ current = NoConnection
    /\ imports = <<>>
    /\ logging_option = <<>>
    /\ listener_log = TRUE
    /\ wsdl = <<>>
    /\ options = <<>>
    /\ locations = <<>>
    /\ bindings = <<>>
    /\ last = [op |-> "none", args |-> <<>>, result |-> "ok", ret |-> 0, log |-> <<>>]
    /\ returned = <<>>
    /\ recent = [call |-> "none", done |-> "none"]

AliasArgs == {NoAlias, Alias("a"), Alias("2")}
OptAliasArgs == {NoAlias, Alias("a")}
BoolArgs == {"True", "off", "maybe"}
AutoblendArgs == {"False", "maybe"}
SwitchArgs == {s \in DOMAIN DigitVal : DigitVal[s] <= MaxClients + 1} \cup {"a", "zz"}
NamespaceArgs == {"ns"}
LocationArgs == {"", "loc"}
FilterArgs == {<<"f">>}

CreateClient(cap, alias_args) ==
    \E url_or_path \in Sources, alias \in alias_args, autoblend \in AutoblendArgs :
        LET r == create_client(Self, url_or_path, alias, autoblend) IN
        /\ Len(connections) < cap
        /\ Run("create_client",
               [url_or_path |-> url_or_path, alias |-> alias, autoblend |-> autoblend], r)
        /\ returned' = IF r.result = "ok" THEN Append(returned, r.ret) ELSE returned
        /\ recent' = [call |-> "create_client",
                      done |-> IF r.result = "ok" THEN "create_client" ELSE recent.done]

CreateClientKw == CreateClient(MaxClients, AliasArgs)

SwitchClientKw ==
    \E index_or_alias \in SwitchArgs :
        /\ Run("switch_client", [index_or_alias |-> index_or_alias],
               switch_client(Self, index_or_alias))
        /\ UNCHANGED <<returned, recent>>

SetSoapLoggingKw ==
    \E log \in BoolArgs :
        /\ Run("set_soap_logging", [log |-> log], set_soap_logging(Self, log))
        /\ UNCHANGED <<returned, recent>>

AddDoctorImportKw ==
    \E ns \in NamespaceArgs, location \in LocationArgs, filters \in FilterArgs :
        /\ Len(imports) < MaxImports
        /\ Run("add_doctor_import",
               [import_namespace |-> ns, location |-> location, filters |-> filters],
               add_doctor_import(Self, ns, location, filters))
        /\ UNCHANGED returned
        /\ recent' = [call |-> "add_doctor_import", done |-> "add_doctor_import"]

Next ==
    \/ CreateClientKw
    \/ SwitchClientKw
    \/ SetSoapLoggingKw
    \/ AddDoctorImportKw

Spec == Init /\ [][Next]_vars

\* ------------------------------------------------- the option keywords
SeqsUpTo(S, n) == UNION {[1..k -> S] : k \in 0..n}

IndexArgs == {"0", "1", "svc"}
ProxyArgs == SeqsUpTo({"http", "a"}, MaxArgs)
PrebuiltHeaders == [dict |-> ([str |-> "X"] :> [str |-> "1"])]
HeaderArgs == SeqsUpTo({[str |-> "X"], [str |-> "1"]}, MaxArgs) \cup {<<PrebuiltHeaders>>}
SoapHeaderArgs == {<<>>, <<"auth">>}
AuthTypeArgs == DOMAIN Upper
UrlArgs == {"u1"}
ServiceIndexArgs == {"-1", "0", "2", "3", "svc"}
NameArgs == {<<>>, <<"m1">>, <<"m2", "zz">>}
BindArgs == {"l1", "l2"}

\* An option keyword ran
Option(op, args, r) == Run(op, args, r) /\ UNCHANGED <<returned, recent>>

SetServiceKw ==
    \E service \in IndexArgs :
        Option("set_service", [service |-> service], set_service(Self, service))

SetPortKw ==
    \E port \in IndexArgs :
        Option("set_port", [port |-> port], set_port(Self, port))

SetProxiesKw ==
    \E pairs \in ProxyArgs :
        Option("set_proxies", [protocol_url_pairs |-> pairs], set_proxies(Self, pairs))

SetHeadersKw ==
    \E args \in HeaderArgs :
        Option("set_headers", [dict_or_key_value_pairs |-> args], set_headers(Self, args))

SetSoapHeadersKw ==
    \E headers \in SoapHeaderArgs :
        Option("set_soap_headers", [headers |-> headers], set_soap_headers(Self, headers))

SetReturnXmlKw ==
    \E return_xml \in BoolArgs :
        Option("set_return_xml", [return_xml |-> return_xml],
               set_return_xml(Self, return_xml))

SetHttpAuthenticationKw ==
    \E type \in AuthTypeArgs :
        Option("set_http_authentication",
               [username |-> "u", password |-> "p", type |-> type],
               set_http_authentication(Self, "u", "p", type))

SetLocationKw ==
    \E url \in UrlArgs, service_index \in ServiceIndexArgs, names \in NameArgs :
        Option("set_location",
               [url |-> url, service_index |-> service_index, names |-> names],
               set_location(Self, url, service_index, names))

BindSchemaToLocationKw ==
    \E ns \in NamespaceArgs, location \in BindArgs :
        Option("bind_schema_to_location", [namespace |-> ns, location |-> location],
               bind_schema_to_location(Self, ns, location))

CreateOptClientKw == CreateClient(MaxOptClients, OptAliasArgs)

\* The option keywords called before any client exists
NextNoClient ==
    \/ SetServiceKw
    \/ SetPortKw
    \/ SetProxiesKw
    \/ SetHeadersKw
    \/ SetSoapHeadersKw
    \/ SetReturnXmlKw
    \/ SetHttpAuthenticationKw
    \/ SetLocationKw
    \/ AddDoctorImportKw
    \/ BindSchemaToLocationKw
    \/ SwitchClientKw

SpecNoClient == Init /\ [][NextNoClient]_vars

NextProxies == CreateOptClientKw \/ SwitchClientKw \/ SetProxiesKw

SpecProxies == Init /\ [][NextProxies]_vars

NextHeaders == CreateOptClientKw \/ SwitchClientKw \/ SetHeadersKw

SpecHeaders == Init /\ [][NextHeaders]_vars

NextLocation == CreateOptClientKw \/ SwitchClientKw \/ SetLocationKw

SpecLocation == Init /\ [][NextLocation]_vars

\* ----------------------------------------------------------------- claims
Called(op) == last.op = op
Succeeded(op) == last.op = op /\ last.result = "ok"
CallsNext(op) == last'.op = op

\* The newest client object
Newest == Cardinality(DOMAIN wsdl)

\* The registered client an argument of Switch Client denotes
Registered(x) ==
    IF IsIndex(x) THEN DigitVal[x] >= 1 /\ DigitVal[x] <= Len(connections)
    ELSE x \in DOMAIN aliases
Denoted(x) ==
    IF IsIndex(x) THEN connections[DigitVal[x]] ELSE connections[aliases[x]]

\* C1 as stated: the pending import list is non-empty only if the most
\* recent call among add_doctor_import and create_client (successful or
\* failing) was add_doctor_import.
C1_PendingOnlyAfterAddAnyCreate ==
    imports # <<>> => recent.call = "add_doctor_import"

\* C1 amended: the pending import list is non-empty only if the most
\* recent call among add_doctor_import and the successful create_client
\* calls was add_doctor_import; a failing create_client does not clear it.
C1_PendingOnlyAfterAdd ==
    imports # <<>> => recent.done = "add_doctor_import"

C1_Witness ==
    /\ Succeeded("create_client")
    /\ \E i \in 1..Len(last.log) : last.log[i].msg = "Using Imports for ImportDoctor:"
    /\ imports = <<>>

\* C2: the k-th successful create_client returns index k, the client it
\* created is then the current one, and no index is returned twice.
C2_SequentialIndices ==
    /\ \A k \in 1..Len(returned) : returned[k] = k
    /\ Succeeded("create_client") =>
          /\ last.ret = Len(returned)
          /\ current = Newest
          /\ connections[last.ret] = Newest

C2_Witness ==
    /\ Succeeded("create_client")
    /\ Len(returned) >= 2
    /\ last.ret = 2
    /\ current = 2

\* C4: after a successful switch_client(x) the current client is the
\* registered client x denotes, the listener's log flag is the flag stored
\* for that client, and no stored flag has changed.
C4_SwitchRestoresLogging ==
    [][(CallsNext("switch_client") /\ last'.result = "ok") =>
          /\ Registered(last'.args.index_or_alias)
          /\ current' = Denoted(last'.args.index_or_alias)
          /\ listener_log' = logging_option[current']
          /\ logging_option' = logging_option
          /\ UNCHANGED <<connections, aliases>>]_vars

C4_Witness ==
    /\ Succeeded("switch_client")
    /\ last.args.index_or_alias = "a"
    /\ listener_log = FALSE
    /\ \E c \in DOMAIN logging_option : logging_option[c]

\* C5: switch_client with an index out of range or an alias that is not
\* registered fails with LookupError and leaves the current client, the
\* registry, the stored flags and the listener's log flag unchanged.
C5_SwitchFailureIsClean ==
    [][(CallsNext("switch_client") /\ ~Registered(last'.args.index_or_alias)) =>
          /\ last'.result = "LookupError"
          /\ UNCHANGED <<current, connections, aliases, logging_option,
                         listener_log>>]_vars

C5_Witness ==
    /\ Called("switch_client")
    /\ last.result = "LookupError"
    /\ current # NoConnection
    /\ listener_log = FALSE

\* C6: a create_client that fails (no scheme longer than one character and
\* no regular file at the path, or the construction of the proxy fails)
\* registers nothing and leaves the current client, the next index, the
\* pending imports and the logging flags unchanged.
C6_CreateFailureIsClean ==
    [][CallsNext("create_client") =>
          /\ (Len(Scheme[last'.args.url_or_path]) <= 1
                 /\ ~isfile(last'.args.url_or_path)) => last'.result = "IOError"
          /\ last'.result # "ok" =>
                UNCHANGED <<connections, aliases, current, imports,
                            logging_option, listener_log, wsdl, options,
                            locations, returned>>]_vars

C6_Witness ==
    /\ Called("create_client")
    /\ last.result = "TransportError"
    /\ imports # <<>>
    /\ current # NoConnection

\* The state of the library and of its clients
ProgVars == <<connections, aliases, current, imports, logging_option,
              listener_log, wsdl, options, locations, bindings>>

OptionKeywords ==
    {"set_service", "set_port", "set_proxies", "set_headers", "set_soap_headers",
     "set_return_xml", "set_http_authentication", "set_location",
     "add_doctor_import", "bind_schema_to_location"}

\* C3 as stated: with no client, every option keyword fails with the
\* no-current-client StateError, for any arguments, and changes no state.
C3_EveryOptionNeedsClient ==
    [][(current = NoConnection /\ last'.op \in OptionKeywords) =>
          last'.result = "StateError" /\ UNCHANGED ProgVars]_vars

\* A call whose arguments the keyword itself rejects
Malformed(c) ==
    \/ c.op = "set_proxies" /\ Len(c.args.protocol_url_pairs) % 2 = 1
    \/ /\ c.op = "set_headers"
       /\ Len(c.args.dict_or_key_value_pairs) % 2 = 1
       /\ Len(c.args.dict_or_key_value_pairs) > 1
    \/ /\ c.op = "set_return_xml"
       /\ c.args.return_xml \notin TrueLiterals \cup FalseLiterals
    \/ /\ c.op = "set_http_authentication"
       /\ Upper[c.args.type] \notin {"STANDARD", "ALWAYS_SEND", "NTLM"}

\* C3 amended: with no client, the option keywords that use the current
\* client fail with StateError when their arguments are well formed and with
\* ValueError when they are not, changing no state; add_doctor_import and
\* bind_schema_to_location do not use the client: they succeed, appending
\* one pending import, respectively recording the binding.
C3_OptionsWithoutClient ==
    [][(current = NoConnection /\ last'.op \in OptionKeywords) =>
          IF last'.op = "add_doctor_import"
          THEN /\ last'.result = "ok"
               /\ Len(imports') = Len(imports) + 1
               /\ SubSeq(imports', 1, Len(imports)) = imports
               /\ imports'[Len(imports')].ns = last'.args.import_namespace
               /\ UNCHANGED <<connections, aliases, current, logging_option,
                              listener_log, wsdl, options, locations, bindings>>
          ELSE IF last'.op = "bind_schema_to_location"
          THEN /\ last'.result = "ok"
               /\ bindings'[last'.args.namespace] = last'.args.location
               /\ UNCHANGED <<connections, aliases, current, imports,
                              logging_option, listener_log, wsdl, options,
                              locations>>
          ELSE /\ last'.result = IF Malformed(last') THEN "ValueError" ELSE "StateError"
               /\ UNCHANGED ProgVars]_vars

C3_Witness ==
    /\ current = NoConnection
    /\ Called("set_location")
    /\ last.result = "StateError"
    /\ imports # <<>>

\* The mapping a flat list of pairs denotes: each first item maps to the
\* second item of the last pair that names it
PairMap(a) ==
    LET n == Len(a) \div 2
        LastPair(k) == CHOOSE j \in 1..n :
                          /\ a[2 * j - 1] = k
                          /\ \A h \in (j + 1)..n : a[2 * h - 1] # k
    IN [k \in {a[2 * j - 1] : j \in 1..n} |-> a[2 * LastPair(k)]]

\* C7: with a current client, set_proxies with an odd number of arguments
\* fails with ValueError and leaves the proxy option alone; with an even
\* number it sets the proxy option of the current client to the mapping of
\* each protocol to the URL of the last pair naming it.
C7_SetProxies ==
    [][(current # NoConnection /\ CallsNext("set_proxies")) =>
          LET a == last'.args.protocol_url_pairs IN
          IF Len(a) % 2 = 1
          THEN last'.result = "ValueError" /\ UNCHANGED ProgVars
          ELSE /\ last'.result = "ok"
               /\ options' = [options EXCEPT ![current].proxy = PairMap(a)]
               /\ DOMAIN options'[current].proxy \subseteq {a[i] : i \in 1..Len(a)}
               /\ UNCHANGED <<connections, aliases, current, imports,
                              logging_option, listener_log, wsdl, locations,
                              bindings>>]_vars

C7_Witness ==
    /\ Succeeded("set_proxies")
    /\ last.args.protocol_url_pairs = <<"http", "a", "http", "http">>
    /\ options[current].proxy = ("http" :> "http")

\* C8: with a current client, set_headers applies a single argument
\* verbatim, applies an even-length list as the mapping of each name to the
\* value of its last occurrence, and fails with ValueError on any other
\* (odd, longer than one) list, leaving the headers option unchanged.
C8_SetHeaders ==
    [][(current # NoConnection /\ CallsNext("set_headers")) =>
          LET a == last'.args.dict_or_key_value_pairs IN
          IF Len(a) % 2 = 1 /\ Len(a) > 1
          THEN last'.result = "ValueError" /\ UNCHANGED ProgVars
          ELSE /\ last'.result = "ok"
               /\ options' = [options EXCEPT ![current].headers =
                                 IF Len(a) = 1 THEN a[1] ELSE [dict |-> PairMap(a)]]
               /\ UNCHANGED <<connections, aliases, current, imports,
                              logging_option, listener_log, wsdl, locations,
                              bindings>>]_vars

C8_Witness ==
    /\ current # NoConnection
    /\ Called("set_headers")
    /\ last.result = "ValueError"
    /\ Len(last.args.dict_or_key_value_pairs) = 3
    /\ options[current].headers = PrebuiltHeaders

\* C9: set_location on a WSDL with S services, for an integer index (any
\* index when S = 1): with S = 1 the index is
\* ignored; otherwise a negative index sets the location on every service,
\* an index below S on that service only, and an index of S or more fails
\* with IndexError changing nothing.  Only the named methods are set, or
\* all of them when no names are given.
C9_SetLocation ==
    [][(current # NoConnection /\ CallsNext("set_location")) =>
          LET S == Cardinality(DOMAIN locations[current])
              x == last'.args.service_index
              names == last'.args.names
              fails == S # 1 /\ DigitVal[x] >= S
              targets == IF S = 1 THEN {0}
                         ELSE IF DigitVal[x] < 0 THEN 0..(S - 1)
                         ELSE {DigitVal[x]}
          IN  (S = 1 \/ IsInt(x)) =>
              /\ last'.result = IF fails THEN "IndexError" ELSE "ok"
              /\ DOMAIN locations' = DOMAIN locations
              /\ \A c \in DOMAIN locations :
                    /\ DOMAIN locations'[c] = DOMAIN locations[c]
                    /\ \A i \in DOMAIN locations[c] : \A m \in Methods :
                          locations'[c][i][m] =
                            IF /\ c = current
                               /\ ~fails
                               /\ i \in targets
                               /\ (names = <<>> \/ \E n \in 1..Len(names) : names[n] = m)
                            THEN last'.args.url
                            ELSE locations[c][i][m]
              /\ UNCHANGED <<connections, aliases, current, imports,
                             logging_option, listener_log, wsdl, options,
                             bindings>>]_vars

C9_Witness ==
    /\ Succeeded("set_location")
    /\ Cardinality(DOMAIN locations[current]) = 1
    /\ last.args.service_index = "3"
    /\ last.args.names = <<"m1">>
    /\ locations[current][0] = ("m1" :> "u1") @@ ("m2" :> "wsdl")

\* C10: whenever a client exists, the listener's log flag equals the
\* logging flag stored for the current client.
C10_ListenerMatchesCurrent ==
    current # NoConnection => listener_log = logging_option[current]

====
